---- MODULE Spec2Model ----
(***************************************************************************)
(* Model of data/create_tfrecords.py: dict_to_tf_example (validation and   *)
(* normalisation of one annotation) and main (shuffle, destructive reset   *)
(* of the output directory, sequential sharded writing).                   *)
(*                                                                         *)
(* Normalised coordinates are the quotients pixel/width and pixel/height.  *)
(* They are kept as exact fractions <<numerator, denominator>> and compared*)
(* by cross-multiplication; for pixel-sized integers the float quotients   *)
(* of the code compare exactly as these fractions do.                      *)
(***************************************************************************)
EXTENDS Integers, Sequences, FiniteSets, TLC

(* ------------------------------ bounds --------------------------------- *)
MaxN == 4          \* annotation files in annotations_dir: 0..MaxN
MaxShards == 3     \* --num_shards: 1..MaxShards
MaxCoord == 2      \* pixel coordinates of boxes and landmarks: 0..MaxCoord
MaxDim == 2        \* declared width / height: 1..MaxDim
MaxLandmarks == 2  \* landmark pairs in one annotation: 0..MaxLandmarks
OldShards == 2     \* shard files left in the output directory by an earlier run

VARIABLES
    pc,                    \* position of main
    num_shards,            \* ARGS.num_shards
    examples_list,         \* os.listdir(annotations_dir), then shuffled
    num_examples,
    shard_size,
    files,                 \* output directory: file name -> sequence of records
    shard_id,
    num_examples_written,
    i,                     \* number of entries the for loop has taken
    example,               \* loop variable
    writers,               \* every TFRecordWriter created: [path, state, closes]
    writer,                \* index into writers of the bound handle, 0 = unbound
    annotation,            \* json.load result
    image_dir,             \* image file name -> image file
    tf_example,            \* result of dict_to_tf_example
    produced,              \* history: examples converted successfully, in order
    failed,                \* history: loop position of the first failed conversion
    old_names              \* history: file names in the output directory before the run

vars == <<pc, num_shards, examples_list, num_examples, shard_size, files,
          shard_id, num_examples_written, i, example, writers, writer,
          annotation, image_dir, tf_example, produced, failed, old_names>>

(* --------------------------- fractions --------------------------------- *)
Quot(v, d) == <<v, d>>
FLt(a, b) == a[1] * b[2] < b[1] * a[2]
FLe(a, b) == a[1] * b[2] <= b[1] * a[2]

(* --------------------- dict_to_tf_example ------------------------------ *)
Rejected(e) == [ok |-> FALSE, err |-> e]
NoExample == Rejected("none")
NoAnnotation == [filename |-> [stem |-> 0, ext |-> "none"]]

\* line 71
endswith_jpg(name) == name.ext = "jpg" \/ name.ext = "jpeg"

\* line 92
BoxOk(ymin, ymax, xmin, xmax) == FLt(ymin, ymax) /\ FLt(xmin, xmax)

LandmarkOkYOnly(y, x, ymin, ymax, xmin, xmax) ==
    FLe(y, ymax) /\ FLe(ymin, y)

\* lines 99-100
LandmarkOk(y, x, ymin, ymax, xmin, xmax) ==
    /\ FLe(y, ymax) /\ FLe(ymin, y)
    /\ FLe(x, xmax) /\ FLe(xmin, x)

\* lines 96-101: the (y, x) pair emitted for every input pair (x, y)
Flatten(landmarks, width, height) ==
    [k \in 1..Len(landmarks) |->
        <<Quot(landmarks[k][2], height), Quot(landmarks[k][1], width)>>]

dict_to_tf_example(a, dir) ==
    IF ~endswith_jpg(a.filename) THEN Rejected("AssertionError:71")
    ELSE IF a.filename \notin DOMAIN dir THEN Rejected("NotFoundError:74")
    ELSE LET image == dir[a.filename]
             width == a.size.width
             height == a.size.height
         IN
         IF image.format # "JPEG" THEN Rejected("AssertionError:80")
         ELSE IF image.mode # "RGB" THEN Rejected("AssertionError:81")
         ELSE IF ~(width > 0 /\ height > 0) THEN Rejected("AssertionError:85")
         ELSE IF ~(image.size[1] = width /\ image.size[2] = height)
              THEN Rejected("AssertionError:86")
         ELSE LET ymin == Quot(a.box.ymin, height)
                  xmin == Quot(a.box.xmin, width)
                  ymax == Quot(a.box.ymax, height)
                  xmax == Quot(a.box.xmax, width)
                  flat == Flatten(a.landmarks, width, height)
              IN
              IF ~BoxOk(ymin, ymax, xmin, xmax) THEN Rejected("AssertionError:92")
              ELSE IF \E k \in 1..Len(flat) :
                          ~LandmarkOk(flat[k][1], flat[k][2], ymin, ymax, xmin, xmax)
                   THEN Rejected("AssertionError:99")
              ELSE [ok |-> TRUE, image |-> image.bytes,
                    xmin |-> xmin, xmax |-> xmax, ymin |-> ymin, ymax |-> ymax,
                    landmarks |-> flat]

(* ------------------------------ inputs --------------------------------- *)
JpgName(e) == [stem |-> e, ext |-> "jpg"]
Jpeg(e, w, h) == [bytes |-> e, format |-> "JPEG", mode |-> "RGB", size |-> <<w, h>>]

SeqsUpTo(S, n) == UNION {[1..m -> S] : m \in 0..n}

Coords == 0..MaxCoord
Boxes == [xmin : Coords, ymin : Coords, xmax : Coords, ymax : Coords]
Points == Coords \X Coords

Ann(e, w, h, b, l) ==
    [filename |-> JpgName(e), size |-> [width |-> w, height |-> h],
     box |-> b, landmarks |-> l]

\* annotation / image directory pairs with a well-formed JPEG of the declared size
GeometryInputs(e) ==
    {<<Ann(e, w, h, b, l), JpgName(e) :> Jpeg(e, w, h)>> :
        w \in 1..MaxDim, h \in 1..MaxDim, b \in Boxes,
        l \in SeqsUpTo(Points, MaxLandmarks)}

GoodBox == [xmin |-> 0, ymin |-> 0, xmax |-> 1, ymax |-> 1]
GoodAnn(e) == Ann(e, 1, 1, GoodBox, <<<<1, 0>>>>)

\* annotation / image directory pairs that fail a check on the file itself
FileInputs(e) ==
    { <<[GoodAnn(e) EXCEPT !.filename.ext = "png"], JpgName(e) :> Jpeg(e, 1, 1)>>,
      <<[GoodAnn(e) EXCEPT !.filename.ext = "jpeg"],
            [stem |-> e, ext |-> "jpeg"] :> Jpeg(e, 1, 1)>>,
      <<GoodAnn(e), <<>> >>,
      <<GoodAnn(e), JpgName(e) :> [Jpeg(e, 1, 1) EXCEPT !.format = "PNG"]>>,
      <<GoodAnn(e), JpgName(e) :> [Jpeg(e, 1, 1) EXCEPT !.mode = "L"]>>,
      <<GoodAnn(e), JpgName(e) :> Jpeg(e, 2, 1)>>,
      <<[GoodAnn(e) EXCEPT !.size.width = 0], JpgName(e) :> Jpeg(e, 0, 1)>> }

\* what main can find behind one entry of annotations_dir
PoolInputs(e) ==
    { <<GoodAnn(e), JpgName(e) :> Jpeg(e, 1, 1)>>,
      <<Ann(e, 2, 2, [xmin |-> 0, ymin |-> 1, xmax |-> 2, ymax |-> 2], <<<<1, 1>>, <<2, 2>>>>),
            JpgName(e) :> Jpeg(e, 2, 2)>>,
      <<Ann(e, 1, 1, [xmin |-> 1, ymin |-> 0, xmax |-> 1, ymax |-> 1], <<>>),
            JpgName(e) :> Jpeg(e, 1, 1)>>,
      <<Ann(e, 2, 2, [xmin |-> 0, ymin |-> 0, xmax |-> 1, ymax |-> 1], <<<<2, 1>>>>),
            JpgName(e) :> Jpeg(e, 2, 2)>>,
      <<GoodAnn(e), <<>> >> }

(* --------------------------- file names -------------------------------- *)
RECURSIVE Digits(_)
Digits(n) == IF n < 10 THEN <<n>> ELSE Append(Digits(n \div 10), n % 10)

RECURSIVE ZeroPad(_, _)
ZeroPad(ds, w) == IF Len(ds) >= w THEN ds ELSE ZeroPad(<<0>> \o ds, w)

\* 'shard-%04d.tfrecords' % shard_id: the digits between prefix and suffix
ShardPath(id) == ZeroPad(Digits(id), 4)

RECURSIVE IndexOf(_)
IndexOf(name) ==
    IF Len(name) = 0 THEN 0
    ELSE 10 * IndexOf(SubSeq(name, 1, Len(name) - 1)) + name[Len(name)]

(* ------------------------------- main ---------------------------------- *)
Perms(s) ==
    {p \in [1..Len(s) -> {s[k] : k \in 1..Len(s)}] :
        \A a, b \in 1..Len(s) : a # b => p[a] # p[b]}

ShardSizeFloor(n, s) == n \div s

\* line 140: math.ceil(num_examples/num_shards)
ShardSize(n, s) == (n + s - 1) \div s

RmtreeKeep(dir) == dir

\* lines 144-145: shutil.rmtree(output_dir, ignore_errors=True); os.mkdir(output_dir)
Rmtree(dir) == <<>>

WriteRecordFirst(contents, rec) == <<rec>> \o contents

\* line 158: writer.write appends one serialized record to the file
WriteRecord(contents, rec) == Append(contents, rec)

CloseNothing(ws, w) == ws

\* lines 164, 167: writer.close()
Close(ws, w) ==
    [ws EXCEPT ![w] = [@ EXCEPT !.state = "closed", !.closes = @ + 1]]

AfterConvertSkip(ex) == IF ex.ok THEN "write" ELSE "loop"

\* line 157: an exception raised by dict_to_tf_example leaves main
AfterConvert(ex) == IF ex.ok THEN "write" ELSE "aborted"

OldRecord == [ok |-> TRUE, image |-> 0]
OldDirs ==
    {[n \in {ShardPath(k) : k \in K} |-> <<OldRecord>>] :
        K \in SUBSET {2 * j : j \in 0..(OldShards - 1)}}

Init ==
    /\ pc = "start"
    /\ num_shards \in 1..MaxShards
    /\ \E n \in 0..MaxN : examples_list = [k \in 1..n |-> k]
    /\ files \in OldDirs
    /\ num_examples = 0
    /\ shard_size = 0
    /\ shard_id = 0
    /\ num_examples_written = 0
    /\ i = 0
    /\ example = 0
    /\ writers = <<>>
    /\ writer = 0
    /\ annotation = NoAnnotation
    /\ image_dir = <<>>
    /\ tf_example = NoExample
    /\ produced = <<>>
    /\ failed = 0
    /\ old_names = DOMAIN files

\* lines 134-141
Shuffle ==
    /\ pc = "start"
    /\ examples_list' \in Perms(examples_list)
    /\ num_examples' = Len(examples_list)
    /\ shard_size' = ShardSize(Len(examples_list), num_shards)
    /\ pc' = "reset"
    /\ UNCHANGED <<old_names, num_shards, files, shard_id, num_examples_written, i, example,
                   writers, writer, annotation, image_dir, tf_example, produced,
                   failed>>

\* lines 143-148
ResetOutput ==
    /\ pc = "reset"
    /\ files' = Rmtree(files)
    /\ shard_id' = 0
    /\ num_examples_written' = 0
    /\ pc' = "loop"
    /\ UNCHANGED <<old_names, num_shards, examples_list, num_examples, shard_size, i, example,
                   writers, writer, annotation, image_dir, tf_example, produced,
                   failed>>

\* line 149
LoopHead ==
    /\ pc = "loop"
    /\ IF i < Len(examples_list)
       THEN /\ i' = i + 1
            /\ example' = examples_list[i + 1]
            /\ pc' = "open"
       ELSE /\ pc' = "final"
            /\ UNCHANGED <<i, example>>
    /\ UNCHANGED <<old_names, num_shards, examples_list, num_examples, shard_size, files,
                   shard_id, num_examples_written, writers, writer, annotation,
                   image_dir, tf_example, produced, failed>>

\* lines 151-153: TFRecordWriter creates (or truncates) the file when constructed
OpenShard ==
    /\ pc = "open"
    /\ IF num_examples_written = 0
       THEN /\ writers' = Append(writers,
                  [path |-> ShardPath(shard_id), state |-> "open", closes |-> 0])
            /\ writer' = Len(writers) + 1
            /\ files' = (ShardPath(shard_id) :> <<>>) @@ files
       ELSE UNCHANGED <<writers, writer, files>>
    /\ pc' = "load"
    /\ UNCHANGED <<old_names, num_shards, examples_list, num_examples, shard_size, shard_id,
                   num_examples_written, i, example, annotation, image_dir,
                   tf_example, produced, failed>>

\* lines 155-157
Convert ==
    /\ pc = "load"
    /\ \E in \in PoolInputs(example) :
          /\ annotation' = in[1]
          /\ image_dir' = in[2]
          /\ tf_example' = dict_to_tf_example(in[1], in[2])
    /\ produced' = IF tf_example'.ok THEN Append(produced, example) ELSE produced
    /\ failed' = IF ~tf_example'.ok /\ failed = 0 THEN i ELSE failed
    /\ pc' = AfterConvert(tf_example')
    /\ UNCHANGED <<old_names, num_shards, examples_list, num_examples, shard_size, files,
                   shard_id, num_examples_written, i, example, writers, writer>>

\* lines 158-159
WriteExample ==
    /\ pc = "write"
    /\ IF writer \in DOMAIN writers /\ writers[writer].state = "open"
          /\ tf_example.ok
       THEN /\ files' = [files EXCEPT
                  ![writers[writer].path] = WriteRecord(@, tf_example)]
            /\ num_examples_written' = num_examples_written + 1
            /\ pc' = "roll"
       ELSE /\ pc' = "aborted"
            /\ UNCHANGED <<files, num_examples_written>>
    /\ UNCHANGED <<old_names, num_shards, examples_list, num_examples, shard_size, shard_id,
                   i, example, writers, writer, annotation, image_dir, tf_example,
                   produced, failed>>

\* lines 161-164
RollShard ==
    /\ pc = "roll"
    /\ IF num_examples_written = shard_size
       THEN /\ shard_id' = shard_id + 1
            /\ num_examples_written' = 0
            /\ writers' = Close(writers, writer)
       ELSE UNCHANGED <<shard_id, num_examples_written, writers>>
    /\ pc' = "loop"
    /\ UNCHANGED <<old_names, num_shards, examples_list, num_examples, shard_size, files, i,
                   example, writer, annotation, image_dir, tf_example, produced,
                   failed>>

\* lines 166-169
Finish ==
    /\ pc = "final"
    /\ IF num_examples_written # 0
       THEN writers' = Close(writers, writer)
       ELSE UNCHANGED writers
    /\ pc' = "done"
    /\ UNCHANGED <<old_names, num_shards, examples_list, num_examples, shard_size, files,
                   shard_id, num_examples_written, i, example, writer, annotation,
                   image_dir, tf_example, produced, failed>>

Next ==
    \/ Shuffle
    \/ ResetOutput
    \/ LoopHead
    \/ OpenShard
    \/ Convert
    \/ WriteExample
    \/ RollShard
    \/ Finish

Spec == Init /\ [][Next]_vars

(* ------------- dict_to_tf_example on bounded annotations --------------- *)
InitV ==
    /\ pc = "load"
    /\ \E in \in GeometryInputs(1) \cup FileInputs(1) :
          /\ annotation = in[1]
          /\ image_dir = in[2]
    /\ example = 1
    /\ examples_list = <<1>>
    /\ num_shards = 1
    /\ num_examples = 1
    /\ shard_size = 1
    /\ files = <<>>
    /\ shard_id = 0
    /\ num_examples_written = 0
    /\ i = 1
    /\ writers = <<>>
    /\ writer = 0
    /\ tf_example = NoExample
    /\ produced = <<>>
    /\ failed = 0
    /\ old_names = {}

\* line 157 alone: tf_example = dict_to_tf_example(annotation, image_dir)
ConvertV ==
    /\ pc = "load"
    /\ tf_example' = dict_to_tf_example(annotation, image_dir)
    /\ pc' = "converted"
    /\ UNCHANGED <<old_names, num_shards, examples_list, num_examples, shard_size, files,
                   shard_id, num_examples_written, i, example, writers, writer,
                   annotation, image_dir, produced, failed>>

NextV == ConvertV

SpecV == InitV /\ [][NextV]_vars

(* ------------------------------ claims --------------------------------- *)
N == Len(examples_list)
Zero == Quot(0, 1)
One == Quot(1, 1)
Done == pc = "done"
Opened == {w \in DOMAIN writers : writers[w].state = "open"}
Closed == {w \in DOMAIN writers : writers[w].state = "closed"}
LastIndex == CHOOSE m \in {IndexOf(n) : n \in DOMAIN files} :
                 \A n \in DOMAIN files : IndexOf(n) <= m

RECURSIVE ConcatUpTo(_)
ConcatUpTo(k) ==
    IF k < 0 THEN <<>>
    ELSE ConcatUpTo(k - 1) \o
         (IF \E n \in DOMAIN files : IndexOf(n) = k
          THEN files[CHOOSE n \in DOMAIN files : IndexOf(n) = k]
          ELSE <<>>)

\* the records of all shard files, shard by shard in increasing index
Concatenated == IF DOMAIN files = {} THEN <<>> ELSE ConcatUpTo(LastIndex)
ImagesOf(recs) == [k \in 1..Len(recs) |-> recs[k].image]

\* ceil(n/s) as the least c with c*s >= n
CeilDiv(n, s) == CHOOSE c \in 0..n : c * s >= n /\ \A d \in 0..n : d * s >= n => c <= d

\* C1: after a run in which every annotation validated, the shard files read in
\* increasing index hold exactly the shuffled sequence of the N records: each
\* once, none dropped, in arrival order.
C1_WrittenOnceInOrder ==
    Done => /\ ImagesOf(Concatenated) = examples_list
            /\ Len(Concatenated) = N
            /\ \A k \in 1..Len(Concatenated) : Concatenated[k].ok

C1_Witness ==
    /\ Done
    /\ N >= 3
    /\ Cardinality(DOMAIN files) >= 2
    /\ examples_list[1] > examples_list[2]

\* C2: after a successful run every shard file holds at most ceil(N/S) records
\* and every shard file but the one of highest index holds exactly ceil(N/S).
C2_ShardSizes ==
    Done => \A n \in DOMAIN files :
                /\ Len(files[n]) <= CeilDiv(N, num_shards)
                /\ IndexOf(n) # LastIndex => Len(files[n]) = CeilDiv(N, num_shards)

C2_Witness ==
    /\ Done
    /\ Cardinality(DOMAIN files) >= 2
    /\ \E n \in DOMAIN files : Len(files[n]) < CeilDiv(N, num_shards)
    /\ \E n \in DOMAIN files : Len(files[n]) = CeilDiv(N, num_shards)

\* C3: after a successful run the output directory holds exactly num_shards
\* files, named shard-0000 .. shard-(S-1) with 4-digit zero-padded indices.
C3_ExactlyNumShardsFiles ==
    Done => DOMAIN files = {ShardPath(k) : k \in 0..(num_shards - 1)}

\* C4: every accepted Record has 0 <= xmin < xmax <= 1 and 0 <= ymin < ymax <= 1.
C4_BoxInUnitSquare ==
    tf_example.ok =>
        /\ FLe(Zero, tf_example.xmin) /\ FLt(tf_example.xmin, tf_example.xmax)
        /\ FLe(tf_example.xmax, One)
        /\ FLe(Zero, tf_example.ymin) /\ FLt(tf_example.ymin, tf_example.ymax)
        /\ FLe(tf_example.ymax, One)

\* C5: every landmark pair (y, x) of an accepted Record has y in [ymin, ymax]
\* and x in [xmin, xmax]; an annotation with a landmark outside its box (in
\* pixels) is rejected.
C5_LandmarksInBox ==
    /\ tf_example.ok =>
          \A k \in 1..Len(tf_example.landmarks) :
              LET y == tf_example.landmarks[k][1]
                  x == tf_example.landmarks[k][2]
              IN /\ FLe(tf_example.ymin, y) /\ FLe(y, tf_example.ymax)
                 /\ FLe(tf_example.xmin, x) /\ FLe(x, tf_example.xmax)
    /\ (pc = "converted" /\ annotation.size.width > 0 /\
        \E k \in 1..Len(annotation.landmarks) :
            LET px == annotation.landmarks[k][1]
                py == annotation.landmarks[k][2]
            IN \/ px < annotation.box.xmin \/ px > annotation.box.xmax
               \/ py < annotation.box.ymin \/ py > annotation.box.ymax)
       => ~tf_example.ok

C5_Witness ==
    /\ pc = "converted"
    /\ tf_example.ok
    /\ Len(tf_example.landmarks) = 2
    /\ tf_example.landmarks[1] = <<tf_example.ymax, tf_example.xmin>>
    /\ tf_example.landmarks[2] # tf_example.landmarks[1]

\* C6: once the conversion of the entry at position `failed` has failed the run
\* is aborted, no shard holds that entry or a later one, and a shard file that
\* has been closed stays in the directory with its contents unchanged.
C6_FailFast ==
    /\ [](failed # 0 =>
            /\ pc = "aborted"
            /\ \A n \in DOMAIN files : \A k \in 1..Len(files[n]) :
                   \A j \in failed..N : files[n][k].image # examples_list[j])
    /\ [][\A w \in Closed :
            /\ writers[w].path \in DOMAIN files'
            /\ files'[writers[w].path] = files[writers[w].path]]_vars

C6_Witness ==
    /\ pc = "aborted"
    /\ failed >= 2
    /\ failed < N
    /\ Closed # {}
    /\ Opened # {}

\* C7: after a successful run every file of the output directory was created by
\* this run and holds only this run's records; no earlier file survives.
C7_OnlyThisRunsShards ==
    Done => /\ \A n \in DOMAIN files :
                  /\ \E w \in DOMAIN writers : writers[w].path = n
                  /\ \A k \in 1..Len(files[n]) : files[n][k] # OldRecord
            /\ \A n \in old_names :
                  (\A w \in DOMAIN writers : writers[w].path # n) => n \notin DOMAIN files

C7_Witness ==
    /\ Done
    /\ Cardinality(old_names) >= 2
    /\ Cardinality(DOMAIN files) = 1
    /\ \E n \in old_names : n \notin DOMAIN files
    /\ \E n \in old_names : n \in DOMAIN files

\* C8: every shard writer that was opened is closed exactly once on every exit
\* path of the run, aborted runs included, and no write goes to a closed writer.
C8_ClosedExactlyOnce ==
    /\ pc \in {"done", "aborted"} =>
          \A w \in DOMAIN writers :
              writers[w].state = "closed" /\ writers[w].closes = 1
    /\ \A w \in DOMAIN writers : writers[w].closes <= 1
    /\ pc = "write" => writer \in Opened

\* C9: at every point of a run a shard file exists in the output directory only
\* if at least one Record has been written to it.
C9_NoEmptyShardFile ==
    pc \notin {"start", "reset"} => \A n \in DOMAIN files : Len(files[n]) >= 1

\* C10: at most one shard writer is open at any point, and a record is written
\* only to the open writer of the current shard_id.
C10_SingleOpenWriter ==
    /\ Cardinality(Opened) <= 1
    /\ pc = "write" =>
          /\ writer \in Opened
          /\ writers[writer].path = ShardPath(shard_id)

C10_Witness ==
    /\ pc = "write"
    /\ shard_id >= 1
    /\ Closed # {}
    /\ num_examples_written >= 1

====
